---- MODULE Spec2Model ----
(***************************************************************************)
(* The scanning engine of capsaicin (src/main.go): the worker pool, the    *)
(* seeder, the recursive task manager, the result collector and the        *)
(* goroutine that closes the channels, with the classifier functions they  *)
(* call.  A state of the model is taken at the blocking points of the      *)
(* goroutines: an HTTP request in flight, a channel send or receive, a     *)
(* sleep, a WaitGroup wait.  One action completes the pending blocking     *)
(* operation of one goroutine and runs its code up to the next one.        *)
(*                                                                         *)
(* Strings are sequences of one-character tokens, so that TrimSuffix,      *)
(* TrimPrefix, HasSuffix, Contains, Split and SplitN are computed as the   *)
(* Go library computes them.  A response body is represented by the set of *)
(* secret patterns its text matches (the regular expressions themselves    *)
(* are not modelled) together with its length.                             *)
(***************************************************************************)
EXTENDS Integers, Sequences, FiniteSets, TLC

(***************************************************************************)
(* Bounds of the model.                                                    *)
(***************************************************************************)
\* config.Threads ranges over 0..MaxThreads
MaxThreads == 2
\* config.MaxDepth ranges over 0..MaxDepthBound
MaxDepthBound == 2
\* the wordlist of a scan of directories holds at most MaxWords entries
MaxWords == 2
\* at most MaxArtifacts of the mutated URLs of one path exist on a target
\* (answer with a response that is emitted)
MaxArtifacts == 1

(***************************************************************************)
(* Program constants.                                                      *)
(***************************************************************************)
\* performCalibration probes three random paths
NumCalibrationPaths == 3
\* worker: maxConsecutiveErrors := 5
maxConsecutiveErrors == 5

(***************************************************************************)
(* Strings.                                                                *)
(***************************************************************************)
Slash == "/"
Dot == "."

\* strings.TrimSuffix(s, "/")
TrimSuffixSlash(s) ==
    IF Len(s) > 0 /\ s[Len(s)] = Slash THEN SubSeq(s, 1, Len(s) - 1) ELSE s

\* strings.TrimPrefix(s, "/")
TrimPrefixSlash(s) ==
    IF Len(s) > 0 /\ s[1] = Slash THEN SubSeq(s, 2, Len(s)) ELSE s

\* strings.HasSuffix(s, "/")
HasSuffixSlash(s) == Len(s) > 0 /\ s[Len(s)] = Slash

\* strings.Contains(s, c) for a one-character c
ContainsChar(s, c) == \E i \in 1..Len(s) : s[i] = c

\* the positions of character c in s
Positions(s, c) == {i \in 1..Len(s) : s[i] = c}

\* the k-th smallest element of a finite set of integers
RECURSIVE KthSmallest(_, _)
KthSmallest(S, k) ==
    LET m == CHOOSE x \in S : \A y \in S : x <= y
    IN  IF k = 1 THEN m ELSE KthSmallest(S \ {m}, k - 1)

\* the largest element of a finite non-empty set of integers
MaxOf(S) == CHOOSE x \in S : \A y \in S : y <= x

(***************************************************************************)
(* Configuration and inputs.                                               *)
(***************************************************************************)
\* the target list after validateConfig: every target starts with a scheme
Target1 == <<"h", ":", "/", "/", "t">>
targets == <<Target1>>

\* wordlist entries and the extension list of the -x flag (dot prepended)
WordA == <<"a">>
ExtX == <<".", "x">>

\* the wordlists loadWordlist can return
WordLists == UNION {[1..n -> {WordA}] : n \in 0..(maxConsecutiveErrors + 1)}

\* the extension lists parseFlags can return
ExtensionLists == {<<>>, <<ExtX>>}

(***************************************************************************)
(* Secret patterns: the table, by name, in table order.                    *)
(***************************************************************************)
secretPatterns ==
    <<"AWS Access Key", "Generic API Key", "Private Key",
      "JWT Token", "Slack Token", "Google API Key">>

(***************************************************************************)
(* HTTP responses the targets may give.  A response is its status, the     *)
(* length of its body, the set of secret patterns its body matches and its *)
(* Server header (empty when absent).                                      *)
(***************************************************************************)
Resp(st, sz, m) == [StatusCode |-> st, Size |-> sz, Matches |-> m, Server |-> <<>>]

\* the same response served through Cloudflare
BehindCloudflare(o) ==
    [o EXCEPT !.Server = <<"c", "l", "o", "u", "d", "f", "l", "a", "r", "e">>]

Responses ==
    { Resp(200, 100, {}),
      Resp(200, 104, {"JWT Token", "AWS Access Key"}),
      Resp(204, 0, {}),
      Resp(301, 0, {}),
      Resp(403, 100, {}),
      Resp(404, 100, {}),
      Resp(405, 0, {}) }

\* the outcome of a request: a transport error or a response
TransportError == [StatusCode |-> 0, Size |-> 0, Matches |-> {}, Server |-> <<>>]
IsError(o) == o.StatusCode = 0

\* the behaviours of the targets: the outcomes their requests may have
AnyOutcome == Responses \cup {TransportError}
Directories == {Resp(301, 0, {}), Resp(404, 100, {}), TransportError}
\* a target with protected paths, behind Cloudflare; its redirect page and
\* its 200 page carry credentials
Forbidden ==
    { BehindCloudflare(o) :
        o \in { Resp(401, 100, {}), Resp(403, 100, {}), Resp(302, 60, {"Private Key"}),
                Resp(200, 104, {"JWT Token", "AWS Access Key"}) } }
        \cup {TransportError}
Unreachable == {Resp(404, 100, {}), TransportError}
\* a target that answers every path with the same 404 page
NotFound == {Resp(404, 100, {})}
\* a target that answers every path with the same page and status 200, when
\* the request gets through
SoftNotFound == {Resp(200, 100, {}), TransportError}
\* a target whose paths refuse GET and may accept another method
MethodNotAllowed == {Resp(405, 0, {}), Resp(201, 0, {}), Resp(404, 100, {})}
Servers ==
    { AnyOutcome, Directories, Forbidden, Unreachable, NotFound, SoftNotFound,
      MethodNotAllowed }

(***************************************************************************)
(* Helper functions of main.go.                                            *)
(***************************************************************************)
\* abs
abs(n) == IF n < 0 THEN 0 - n ELSE n

\* extractPath: "/" and what follows the third "/" of the URL
extractPath(url) ==
    LET P == Positions(url, Slash)
    IN  IF Cardinality(P) >= 3
        THEN <<Slash>> \o SubSeq(url, KthSmallest(P, 3) + 1, Len(url))
        ELSE <<Slash>>

\* the URL a worker builds for a path of a target
BuildURL(target, path) ==
    TrimSuffixSlash(target) \o <<Slash>> \o TrimPrefixSlash(path)

\* generateMutations
generateMutations(path) ==
    LET fixed ==
            << path \o <<".", "b", "a", "k">>,
               path \o <<".", "o", "l", "d">>,
               path \o <<".", "b", "a", "c", "k", "u", "p">>,
               path \o <<"~">>,
               path \o <<".", "s", "w", "p">>,
               <<".">> \o path \o <<".", "s", "w", "p">>,
               <<"_">> \o path,
               path \o <<".", "t", "x", "t">>,
               path \o <<".", "o", "r", "i", "g">> >>
    IN  IF ContainsChar(path, Dot)
        THEN LET last == MaxOf(Positions(path, Dot))
                 base == SubSeq(path, 1, last - 1)
                 ext  == SubSeq(path, last + 1, Len(path))
             IN  Append(fixed, base \o <<".", "b", "a", "k", ".">> \o ext)
        ELSE fixed

\* isDirectory
isDirectory(result) ==
    \/ result.StatusCode \in {301, 302, 403}
    \/ HasSuffixSlash(result.URL)

\* a size test that also accepts a difference of exactly 5%
WithinToleranceInclusive(size, sigSize) == 100 * abs(size - sigSize) <= 5 * sigSize

\* the 5% size test of matchesSignature, float64(abs(d)) / float64(size) < 0.05,
\* as the exact comparison of the two rationals
WithinTolerance(size, sigSize) == 100 * abs(size - sigSize) < 5 * sigSize

\* a matchesSignature that asks every signature to match, which an empty
\* list satisfies
matchesEverySignature(result, signatures) ==
    \A i \in 1..Len(signatures) :
        /\ result.StatusCode = signatures[i].StatusCode
        /\ signatures[i].Size # 0
        /\ WithinTolerance(result.Size, signatures[i].Size)

\* matchesSignature
matchesSignature(result, signatures) ==
    \E i \in 1..Len(signatures) :
        /\ result.StatusCode = signatures[i].StatusCode
        /\ signatures[i].Size # 0
        /\ WithinTolerance(result.Size, signatures[i].Size)

\* isInteresting with 405 added to the interesting statuses: the primary
\* result of a method-fuzzed task would be reported as well
isInterestingWith405(result) ==
    \/ result.StatusCode >= 200 /\ result.StatusCode < 400
    \/ result.StatusCode \in {401, 403, 405}

\* isInteresting with the client errors added to the interesting statuses
isInterestingBelow500(result) ==
    result.StatusCode >= 200 /\ result.StatusCode < 500

\* isInteresting
isInteresting(result) ==
    \/ result.StatusCode >= 200 /\ result.StatusCode < 400
    \/ result.StatusCode \in {401, 403}

\* detectSecrets: the names of the patterns that match, in table order
detectSecrets(content) ==
    SelectSeq(secretPatterns, LAMBDA name : name \in content)

(***************************************************************************)
(* The WAF fingerprinter.  A response is seen through the value of its     *)
(* Server header, the names of its other headers as Go canonicalises them  *)
(* and the names of its cookies.                                           *)
(***************************************************************************)
UpperLetters ==
    <<"A", "B", "C", "D", "E", "F", "G", "H", "I", "J", "K", "L", "M">> \o
    <<"N", "O", "P", "Q", "R", "S", "T", "U", "V", "W", "X", "Y", "Z">>
LowerLetters ==
    <<"a", "b", "c", "d", "e", "f", "g", "h", "i", "j", "k", "l", "m">> \o
    <<"n", "o", "p", "q", "r", "s", "t", "u", "v", "w", "x", "y", "z">>

\* strings.ToLower, on the ASCII letters
LowerOf ==
    [c \in {UpperLetters[k] : k \in 1..Len(UpperLetters)} |->
        LowerLetters[CHOOSE k \in 1..Len(UpperLetters) : UpperLetters[k] = c]]
ToLower(s) ==
    [i \in 1..Len(s) |-> IF s[i] \in DOMAIN LowerOf THEN LowerOf[s[i]] ELSE s[i]]

\* strings.Contains
Contains(s, substr) ==
    \E i \in 0..(Len(s) - Len(substr)) : SubSeq(s, i + 1, i + Len(substr)) = substr

\* wafSignatures; an absent field is the empty string
wafSignatures ==
    << [ Name |-> "Cloudflare", ServerHeader |-> <<"c", "l", "o", "u", "d", "f", "l", "a", "r", "e">>,
         CustomHeader |-> <<>>, CookiePattern |-> <<"_", "_", "c", "f", "d", "u", "i", "d">> ],
       [ Name |-> "AWS WAF", ServerHeader |-> <<>>,
         CustomHeader |-> <<"X", "-", "A", "m", "z", "-", "C", "f", "-", "I", "d">>, CookiePattern |-> <<>> ],
       [ Name |-> "Akamai", ServerHeader |-> <<"A", "k", "a", "m", "a", "i", "G", "H", "o", "s", "t">>,
         CustomHeader |-> <<>>, CookiePattern |-> <<>> ],
       [ Name |-> "Imperva", ServerHeader |-> <<>>,
         CustomHeader |-> <<"X", "-", "I", "i", "n", "f", "o">>, CookiePattern |-> <<>> ],
       [ Name |-> "F5 BigIP", ServerHeader |-> <<>>,
         CustomHeader |-> <<>>, CookiePattern |-> <<"B", "I", "G", "i", "p", "S", "e", "r", "v", "e", "r">> ],
       [ Name |-> "Sucuri", ServerHeader |-> <<"S", "u", "c", "u", "r", "i">>,
         CustomHeader |-> <<>>, CookiePattern |-> <<>> ],
       [ Name |-> "StackPath", ServerHeader |-> <<"S", "t", "a", "c", "k", "P", "a", "t", "h">>,
         CustomHeader |-> <<>>, CookiePattern |-> <<>> ],
       [ Name |-> "Wordfence", ServerHeader |-> <<>>,
         CustomHeader |-> <<"X", "-", "W", "f", "-">>, CookiePattern |-> <<>> ] >>

\* the keys of resp.Header: the Server and Set-Cookie headers are among them
HeaderNames(resp) ==
    resp.Headers
        \cup (IF resp.Server # <<>> THEN {<<"S", "e", "r", "v", "e", "r">>} ELSE {})
        \cup (IF resp.Cookies # {} THEN {<<"S", "e", "t", "-", "C", "o", "o", "k", "i", "e">>} ELSE {})

\* the three checks of detectWAF for one signature
wafMatches(waf, resp) ==
    \/ /\ waf.ServerHeader # <<>>
       /\ Contains(ToLower(resp.Server), ToLower(waf.ServerHeader))
    \/ /\ waf.CustomHeader # <<>>
       /\ \E header \in HeaderNames(resp) :
             Contains(ToLower(header), ToLower(waf.CustomHeader))
    \/ /\ waf.CookiePattern # <<>>
       /\ \E cookie \in resp.Cookies : Contains(cookie, waf.CookiePattern)

\* detectWAF: the name of the first signature that matches, or ""
detectWAF(resp) ==
    IF \E i \in 1..Len(wafSignatures) : wafMatches(wafSignatures[i], resp)
    THEN wafSignatures[CHOOSE i \in 1..Len(wafSignatures) :
                          /\ wafMatches(wafSignatures[i], resp)
                          /\ \A j \in 1..(i - 1) : ~wafMatches(wafSignatures[j], resp)
                      ].Name
    ELSE ""

\* what detectWAF reads of a response of the scan: its Server header
HeadersOf(resp) == [Server |-> resp.Server, Headers |-> {}, Cookies |-> {}]

\* detectWAF(resp) for each response of the targets, computed once
wafOfOutcome == [o \in UNION Servers |-> detectWAF(HeadersOf(o))]

\* `detectWAF(resp)` as makeRequestWithUA and attemptBypass call it
wafDetected(resp) ==
    IF resp \in DOMAIN wafOfOutcome THEN wafOfOutcome[resp] ELSE detectWAF(HeadersOf(resp))

\* makeRequestWithUA: the Result built from a response
makeResult(url, method, resp) ==
    [ URL         |-> url,
      StatusCode  |-> resp.StatusCode,
      Size        |-> resp.Size,
      Critical    |-> FALSE,
      Method      |-> method,
      SecretFound |-> FALSE,
      SecretTypes |-> <<>>,
      WAFDetected |-> wafDetected(resp) ]

\* a bypass Result that keeps the method of the request, GET
bypassResultAsGet(url, resp) ==
    [ URL         |-> url \o <<" ", "[", "B", "Y", "P", "A", "S", "S", "]">>,
      StatusCode  |-> resp.StatusCode,
      Size        |-> resp.Size,
      Critical    |-> FALSE,
      Method      |-> "GET",
      SecretFound |-> FALSE,
      SecretTypes |-> <<>>,
      WAFDetected |-> wafDetected(resp) ]

\* attemptBypass: the Result built from the response to the bypass request
bypassResultOf(url, resp) ==
    [ URL         |-> url \o <<" ", "[", "B", "Y", "P", "A", "S", "S", "]">>,
      StatusCode  |-> resp.StatusCode,
      Size        |-> resp.Size,
      Critical    |-> FALSE,
      Method      |-> "GET+BYPASS",
      SecretFound |-> FALSE,
      SecretTypes |-> <<>>,
      WAFDetected |-> wafDetected(resp) ]

\* fetchSignature: the signature of a response
signatureOf(resp) == [StatusCode |-> resp.StatusCode, Size |-> resp.Size]

\* the alternative methods with PUT ahead of POST
alternativeMethodsReordered == <<"PUT", "POST", "DELETE", "PATCH">>

\* the worker's alternativeMethods
alternativeMethods == <<"POST", "PUT", "DELETE", "PATCH">>


(***************************************************************************)
(* State.                                                                  *)
(***************************************************************************)
VARIABLES
    server,        \* the outcomes the requests of this run may have
    config,        \* Config: Threads, MaxDepth, Extensions
    words,         \* the loaded wordlist
    taskChan,      \* buffered channel of Task, and whether it is closed
    taskClosed,
    resultChan,    \* buffered channel of Result, and whether it is closed
    resultClosed,
    newTaskChan,   \* buffered channel of Task, and whether it is closed
    newTaskClosed,
    stats,         \* the atomic counters of Stats
    scannedDirs,   \* map target -> set of paths already expanded
    results,       \* len(results) of the result collector
    wk,            \* the worker goroutines: position and locals
    seeder,        \* the goroutine feeding the initial tasks
    manager,       \* the recursive task manager goroutine
    collector,     \* the result collector goroutine
    closer,        \* the goroutine that waits for the workers and closes
    mainPc,        \* main: waiting on wg, or returned (the process is over)
    panicked,      \* a goroutine panicked: the process is over
    obs,           \* history: what was dispatched, emitted, dropped, expanded
    call           \* a call of matchesSignature or detectWAF taken alone: its
                   \* arguments and, once it has returned, its value

vars == <<server, config, words, taskChan, taskClosed, resultChan, resultClosed,
          newTaskChan, newTaskClosed, stats, scannedDirs, results, wk,
          seeder, manager, collector, closer, mainPc, panicked, obs, call>>

Workers == 1..config.Threads

\* the outcomes of a request of the scan, and of a calibration request (the
\* answer of the target to a random path that does not exist)
Outcomes == server
CalibrationOutcomes ==
    IF server \in {NotFound, MethodNotAllowed}
    THEN {Resp(404, 100, {})}
    ELSE server \cap {TransportError, Resp(200, 100, {})}

\* channels of three slots per worker
ChanCapTripled == config.Threads * 3

\* make(chan ..., config.Threads*2)
ChanCap == config.Threads * 2

NoTask == [TargetURL |-> <<>>, Path |-> <<>>, Depth |-> 0]
NoResult == makeResult(<<>>, "", Resp(0, 0, {}))
NoBody == {}
NoResponse == [Server |-> <<>>, Headers |-> {}, Cookies |-> {}]

\* no call of a function taken alone
NoCall ==
    [ fn |-> "none", result |-> NoResult, signatures |-> <<>>,
      resp |-> NoResponse, returned |-> FALSE, matched |-> FALSE, waf |-> "" ]

\* a message of resultChan: the Result, with its kind (primary, method,
\* bypass or mutation), the worker and the task it comes from (history, read
\* by no action)
Msg(res, kind, w, task) == [res |-> res, kind |-> kind, by |-> w, task |-> task]

\* the process is running: main has not returned and nothing panicked
Running == mainPc = "wait" /\ ~panicked

Task(target, path, depth) == [TargetURL |-> target, Path |-> path, Depth |-> depth]

InitWorker ==
    [ pc |-> "start",
      ti |-> 1,                      \* target being calibrated
      ci |-> 1,                      \* calibration path being probed
      signatures |-> <<>>,            \* performCalibration's list in progress
      targetSignatures |-> [t \in {} |-> <<>>],
      consecutiveErrors |-> 0,
      task |-> NoTask,
      result |-> NoResult,
      bodyContent |-> NoBody,
      pending |-> NoResult,           \* the Result being sent
      artifacts |-> 0,                \* history: mutations of the task emitted
      bypassStatus |-> 0,             \* history: status of the bypass response
      probed |-> 0,                   \* history: mutations of the task requested
      idx |-> 0 ]                     \* loop index: method or mutation

\* the number of seed tasks of a run
SeedCount(cfg, ws) == Len(targets) * Len(ws) * (1 + Len(cfg.Extensions))

\* the runs explored: the richer the behaviour of the targets, the smaller
\* the scan
Scenario(srv, cfg, ws) ==
    \/ /\ srv = AnyOutcome
       /\ cfg.Threads <= 1
       /\ SeedCount(cfg, ws) + MaxArtifacts + (IF cfg.MaxDepth = 0 THEN 0 ELSE 1) <= 3
    \/ /\ srv = Forbidden
       /\ cfg.MaxDepth = 0
       /\ cfg.Extensions = <<>>
       /\ cfg.Threads + Len(ws) <= 3
    \/ /\ srv = Directories
       /\ \/ /\ cfg.Extensions = <<>>
             /\ \/ Len(ws) <= MaxWords /\ cfg.Threads + cfg.MaxDepth + Len(ws) <= 6
                \/ cfg.Threads = 1 /\ cfg.MaxDepth = 2 /\ Len(ws) <= 4
          \/ /\ cfg.Extensions # <<>>
             /\ cfg.Threads = 1 /\ cfg.MaxDepth = 2 /\ Len(ws) = 1
    \/ /\ srv = Unreachable
       /\ cfg.Threads \in {1, 2}
       /\ cfg.MaxDepth = 0
       /\ cfg.Extensions = <<>>
    \/ /\ srv = NotFound
       /\ cfg.MaxDepth = 0
       /\ cfg.Extensions = <<>>
       /\ Len(ws) <= 2
    \/ /\ srv = SoftNotFound
       /\ cfg.MaxDepth = 0
       /\ cfg.Extensions = <<>>
       /\ Len(ws) <= 1
    \/ /\ srv = MethodNotAllowed
       /\ cfg.Threads = 1
       /\ cfg.MaxDepth = 0
       /\ cfg.Extensions = <<>>
       /\ Len(ws) <= 2

Init ==
    /\ server \in Servers
    /\ config \in [ Threads : 0..MaxThreads,
                    MaxDepth : 0..MaxDepthBound,
                    Extensions : ExtensionLists ]
    /\ words \in WordLists
    /\ Scenario(server, config, words)
    /\ taskChan = <<>> /\ taskClosed = FALSE
    /\ resultChan = <<>> /\ resultClosed = FALSE
    /\ newTaskChan = <<>> /\ newTaskClosed = FALSE
    /\ stats = [ Total |-> SeedCount(config, words),
                 Processed |-> 0, Found |-> 0, Errors |-> 0,
                 Secrets |-> 0, WAFHits |-> 0 ]
    /\ scannedDirs = [t \in {} |-> {}]
    /\ results = 0
    /\ wk = [w \in 1..config.Threads |-> InitWorker]
    /\ seeder = [pc |-> "start", ti |-> 1, ci |-> 1, wi |-> 1, ei |-> 0]
    /\ manager = [ pc |-> IF config.MaxDepth > 0 THEN "recv" ELSE "none",
                   newTask |-> NoTask, wi |-> 1, ei |-> 0 ]
    /\ collector = "recv"
    /\ closer = "wait"
    /\ mainPc = "wait"
    /\ panicked = FALSE
    /\ obs = [ dispatched |-> 0,      \* tasks sent on taskChan
               seeded |-> 0,          \* of which by the seeder
               emitted |-> 0,         \* Results sent on resultChan
               secondary |-> 0,       \* of which bypass and mutation Results
               secretsSent |-> 0,     \* of which with SecretFound
               wafSent |-> 0,         \* of which with a WAFDetected
               matched |-> 0,         \* tasks dropped as calibration matches
               uninteresting |-> 0,   \* tasks whose status is not interesting
               methodHits |-> 0,      \* tasks whose method fuzzing succeeded
               calibrations |-> 0,    \* calibration requests answered
               failures |-> 0,        \* primary requests that failed
               requests |-> [d \in {} |-> 0],    \* requests received, by directory
               expansions |-> [d \in {} |-> 0] ] \* expansions, by directory
    /\ call = NoCall

\* a Go map read: the zero value for a missing key
MapGet(m, k, zero) == IF k \in DOMAIN m THEN m[k] ELSE zero
MapPut(m, k, v) == [x \in DOMAIN m \cup {k} |-> IF x = k THEN v ELSE m[x]]


(***************************************************************************)
(* The worker (func worker).                                               *)
(***************************************************************************)
\* the worker is back at `for task := range tasks`; its locals are dead
Idle(me) ==
    [me EXCEPT !.pc = "recv", !.task = NoTask, !.result = NoResult,
               !.bodyContent = NoBody, !.pending = NoResult, !.idx = 0,
               !.artifacts = 0, !.bypassStatus = 0, !.probed = 0]

\* a secret detection that sets the flag and forgets the list
WithSecretFlagOnly(res, body) ==
    IF Len(detectSecrets(body)) > 0
    THEN [res EXCEPT !.SecretFound = TRUE]
    ELSE res

\* the secret detection applied to a secondary result (method, bypass,
\* mutation): the flag and the list are set together when a pattern matches
WithSecrets(res, body) ==
    IF Len(detectSecrets(body)) > 0
    THEN [res EXCEPT !.SecretFound = TRUE, !.SecretTypes = detectSecrets(body)]
    ELSE res

\* the secret detection applied to the primary result: status 200 and a
\* non-empty body only
WithPrimarySecrets(res, body) ==
    IF res.StatusCode = 200 /\ res.Size > 0 /\ Len(detectSecrets(body)) > 0
    THEN [res EXCEPT !.SecretFound = TRUE, !.SecretTypes = detectSecrets(body)]
    ELSE res

\* a worker that counts the finding twice
CountFoundTwice(st) == [st EXCEPT !.Found = @ + 2]

\* a worker that forgets to count the finding
CountFoundNot(st) == st

\* atomic.AddInt64(&stats.Found, 1)
CountFound(st) == [st EXCEPT !.Found = @ + 1]

\* a worker that counts a secret for every Result it scans
CountSecretAlways(st, res) == [st EXCEPT !.Secrets = @ + 1]

\* atomic.AddInt64(&stats.Secrets, 1) when the detection set the flag
CountSecret(st, res) ==
    IF res.SecretFound THEN [st EXCEPT !.Secrets = @ + 1] ELSE st

\* a worker that submits every directory, whatever the depth settings
SubmitsEveryDirectory(me) == isDirectory(me.result)

\* a worker that also submits the directories found at depth MaxDepth
SubmitsAtMaxDepth(me) ==
    /\ config.MaxDepth > 0
    /\ me.task.Depth <= config.MaxDepth
    /\ isDirectory(me.result)

\* "Recursive Discovery": whether the worker submits the directory
SubmitsDirectory(me) ==
    /\ config.MaxDepth > 0
    /\ me.task.Depth < config.MaxDepth
    /\ isDirectory(me.result)

\* the worker past the bypass block: the recursion submission, then the
\* send of the primary result
AfterBypass(me) ==
    IF SubmitsDirectory(me)
    THEN [me EXCEPT !.pc = "sendNew", !.pending = NoResult, !.idx = 0]
    ELSE [me EXCEPT !.pc = "sendPrimary", !.pending = NoResult, !.idx = 0]

\* the next mutation of the loop, or the end of the bypass block
NextMutation(me) ==
    IF me.idx < Len(generateMutations(me.task.Path))
    THEN [me EXCEPT !.pc = "mutate", !.idx = @ + 1, !.pending = NoResult]
    ELSE AfterBypass(me)

\* whether the primary result triggers the bypass request
TriggersBypass(res) == res.StatusCode = 403 \/ res.StatusCode = 401

\* the code from `if isInteresting(result)` on, up to its first blocking
\* operation: the new worker, counters and history
Classify(me, st, ob) ==
    IF isInteresting(me.result)
    THEN LET res == WithPrimarySecrets(me.result, me.bodyContent)
             me1 == [me EXCEPT !.result = res]
         IN  [ wk |-> IF TriggersBypass(res)
                      THEN [me1 EXCEPT !.pc = "bypass"]
                      ELSE AfterBypass(me1),
               stats |-> CountSecret(CountFound(st), res),
               obs |-> ob ]
    ELSE [ wk |-> Idle(me),
           stats |-> st,
           obs |-> [ob EXCEPT !.uninteresting = @ + 1] ]

\* a worker that enters the loop over the tasks without calibrating
EnterWorkerUncalibrated(me) == [me EXCEPT !.pc = "recv"]

\* the worker entering its function: the calibration of the first target,
\* before the loop over the tasks
EnterWorker(me) ==
    [me EXCEPT !.pc = IF Len(targets) > 0 THEN "calib" ELSE "recv"]

\* the goroutine is scheduled and issues its first calibration request
WorkerStart(w) ==
    /\ Running
    /\ wk[w].pc = "start"
    /\ wk' = [wk EXCEPT ![w] = EnterWorker(wk[w])]
    /\ UNCHANGED <<call, server, config, words, taskChan, taskClosed, resultChan, resultClosed,
                   newTaskChan, newTaskClosed, stats, scannedDirs, results,
                   seeder, manager, collector, closer, mainPc, panicked, obs>>

\* performCalibration's list after the outcome of one fetchSignature
AddSignature(signatures, o) ==
    IF IsError(o) THEN signatures ELSE Append(signatures, signatureOf(o))

\* whether the worker has built targetSignatures for every target
CalibrationComplete(me) == me.ti > Len(targets)

\* a calibration request of the worker returns
WorkerCalibrate(w) ==
    /\ Running
    /\ wk[w].pc = "calib"
    /\ \E o \in CalibrationOutcomes :
        LET me == wk[w]
            sigs == AddSignature(me.signatures, o)
        IN  IF me.ci < NumCalibrationPaths
            THEN wk' = [wk EXCEPT ![w].signatures = sigs, ![w].ci = me.ci + 1]
            ELSE LET me1 == [me EXCEPT
                                !.targetSignatures =
                                    MapPut(me.targetSignatures, targets[me.ti], sigs),
                                !.signatures = <<>>,
                                !.ci = 1,
                                !.ti = me.ti + 1]
                 IN  wk' = [wk EXCEPT ![w] =
                               IF CalibrationComplete(me1)
                               THEN [me1 EXCEPT !.pc = "recv"]
                               ELSE me1]
    /\ obs' = [obs EXCEPT !.calibrations = @ + 1]
    /\ UNCHANGED <<call, server, config, words, taskChan, taskClosed, resultChan, resultClosed,
                   newTaskChan, newTaskClosed, stats, scannedDirs, results,
                   seeder, manager, collector, closer, mainPc, panicked>>

\* `for task := range tasks`: a task is received and its GET is issued, or
\* the channel is closed and drained and the worker returns (wg.Done)
WorkerReceive(w) ==
    /\ Running
    /\ wk[w].pc = "recv"
    /\ IF Len(taskChan) > 0
       THEN /\ wk' = [wk EXCEPT ![w].pc = "primary", ![w].task = Head(taskChan)]
            /\ taskChan' = Tail(taskChan)
       ELSE /\ taskClosed
            /\ wk' = [wk EXCEPT ![w].pc = "done"]
            /\ UNCHANGED taskChan
    /\ UNCHANGED <<call, server, config, words, taskClosed, resultChan, resultClosed,
                   newTaskChan, newTaskClosed, stats, scannedDirs, results,
                   seeder, manager, collector, closer, mainPc, panicked, obs>>

\* the URL of the worker's task
TaskURL(me) == BuildURL(me.task.TargetURL, me.task.Path)

\* the signatures the worker holds for the target of its task
SignaturesFor(me) == MapGet(me.targetSignatures, me.task.TargetURL, <<>>)

\* a worker that forgets to count the failure
CountErrorNot(st) == st

\* atomic.AddInt64(&stats.Errors, 1)
CountError(st) == [st EXCEPT !.Errors = @ + 1]

\* a worker that pauses only once consecutiveErrors is above
\* maxConsecutiveErrors
AfterErrorPausesLate(me) ==
    IF me.consecutiveErrors + 1 > maxConsecutiveErrors
    THEN [Idle(me) EXCEPT !.pc = "sleep",
                          !.consecutiveErrors = me.consecutiveErrors + 1]
    ELSE [Idle(me) EXCEPT !.consecutiveErrors = me.consecutiveErrors + 1]

\* the worker after a failed primary request: consecutiveErrors++, the pause
\* when maxConsecutiveErrors is reached, continue
AfterError(me) ==
    IF me.consecutiveErrors + 1 >= maxConsecutiveErrors
    THEN [Idle(me) EXCEPT !.pc = "sleep",
                          !.consecutiveErrors = me.consecutiveErrors + 1]
    ELSE [Idle(me) EXCEPT !.consecutiveErrors = me.consecutiveErrors + 1]

\* the primary GET returns
WorkerPrimary(w) ==
    /\ Running
    /\ wk[w].pc = "primary"
    /\ \E o \in Outcomes :
        LET me == wk[w]
            st == [stats EXCEPT !.Processed = @ + 1]
        IN  IF IsError(o)
            THEN /\ stats' = CountError(st)
                 /\ wk' = [wk EXCEPT ![w] = AfterError(me)]
                 /\ obs' = [obs EXCEPT !.failures = @ + 1]
            ELSE LET res == makeResult(TaskURL(me), "GET", o)
                     me1 == [me EXCEPT !.consecutiveErrors = 0, !.result = res,
                                       !.bodyContent = o.Matches]
                 IN  IF matchesSignature(res, SignaturesFor(me))
                     THEN /\ wk' = [wk EXCEPT ![w] = Idle(me1)]
                          /\ stats' = st
                          /\ obs' = [obs EXCEPT !.matched = @ + 1]
                     ELSE IF res.StatusCode = 405
                     THEN /\ wk' = [wk EXCEPT ![w] = [me1 EXCEPT !.pc = "method", !.idx = 1]]
                          /\ stats' = st
                          /\ obs' = obs
                     ELSE LET c == Classify(me1, st, obs)
                          IN  /\ wk' = [wk EXCEPT ![w] = c.wk]
                              /\ stats' = c.stats
                              /\ obs' = c.obs
    /\ UNCHANGED <<call, server, config, words, taskChan, taskClosed, resultChan, resultClosed,
                   newTaskChan, newTaskClosed, scannedDirs, results,
                   seeder, manager, collector, closer, mainPc, panicked>>

\* time.Sleep(2 * time.Second) returns; consecutiveErrors = 0; continue
WorkerSleep(w) ==
    /\ Running
    /\ wk[w].pc = "sleep"
    /\ wk' = [wk EXCEPT ![w].pc = "recv", ![w].consecutiveErrors = 0]
    /\ UNCHANGED <<call, server, config, words, taskChan, taskClosed, resultChan, resultClosed,
                   newTaskChan, newTaskClosed, stats, scannedDirs, results,
                   seeder, manager, collector, closer, mainPc, panicked, obs>>

\* whether a method-fuzzing response counts as a success
MethodSucceeds(o) == ~IsError(o) /\ o.StatusCode \in {200, 201, 204}

\* the Result emitted for a successful alternative method
methodResultOf(url, method, o) ==
    WithSecrets([makeResult(url, method, o) EXCEPT !.Critical = TRUE], o.Matches)

\* the request with alternative method idx returns
WorkerMethod(w) ==
    /\ Running
    /\ wk[w].pc = "method"
    /\ \E o \in Outcomes :
        LET me == wk[w]
        IN  IF MethodSucceeds(o)
            THEN LET res == methodResultOf(TaskURL(me), alternativeMethods[me.idx], o)
                 IN  /\ wk' = [wk EXCEPT ![w].pc = "sendMethod", ![w].pending = res]
                     /\ stats' = CountFound(CountSecret(stats, res))
                     /\ obs' = [obs EXCEPT !.methodHits = @ + 1]
            ELSE IF me.idx < Len(alternativeMethods)
            THEN /\ wk' = [wk EXCEPT ![w].idx = me.idx + 1]
                 /\ stats' = stats
                 /\ obs' = obs
            ELSE LET c == Classify(me, stats, obs)
                 IN  /\ wk' = [wk EXCEPT ![w] = c.wk]
                     /\ stats' = c.stats
                     /\ obs' = c.obs
    /\ UNCHANGED <<call, server, config, words, taskChan, taskClosed, resultChan, resultClosed,
                   newTaskChan, newTaskClosed, scannedDirs, results,
                   seeder, manager, collector, closer, mainPc, panicked>>


\* `results <- res` by worker w, which then continues as `next`; a send on a
\* closed channel panics
SendResult(w, res, kind, next, ob) ==
    IF resultClosed
    THEN /\ panicked' = TRUE
         /\ UNCHANGED <<wk, resultChan, obs>>
    ELSE /\ Len(resultChan) < ChanCap
         /\ resultChan' = Append(resultChan, Msg(res, kind, w, wk[w].task))
         /\ wk' = [wk EXCEPT ![w] = next]
         /\ obs' = [ob EXCEPT !.emitted = @ + 1,
                              !.secondary = IF kind \in {"bypass", "mutation"}
                                            THEN @ + 1 ELSE @,
                              !.secretsSent = IF res.SecretFound THEN @ + 1 ELSE @,
                              !.wafSent = IF res.WAFDetected # "" THEN @ + 1 ELSE @]
         /\ UNCHANGED panicked

\* `results <- *methodResult; break`, then the code after the loop
WorkerSendMethod(w) ==
    /\ Running
    /\ wk[w].pc = "sendMethod"
    /\ LET c == Classify([wk[w] EXCEPT !.pending = NoResult, !.idx = 0], stats, obs)
       IN  /\ SendResult(w, wk[w].pending, "method", c.wk, c.obs)
           /\ stats' = IF resultClosed THEN stats ELSE c.stats
    /\ UNCHANGED <<call, server, config, words, taskChan, taskClosed, resultClosed,
                   newTaskChan, newTaskClosed, scannedDirs, results,
                   seeder, manager, collector, closer, mainPc>>

\* a bypass that counts the answer 200 only
BypassSucceedsOn200(o) == ~IsError(o) /\ o.StatusCode = 200

\* whether the bypass response makes a critical finding
BypassSucceeds(o) == ~IsError(o) /\ o.StatusCode \in {200, 302}

\* the Result emitted for a successful bypass
criticalBypassResult(url, o) ==
    WithSecrets([bypassResultOf(url, o) EXCEPT !.Critical = TRUE], o.Matches)

\* attemptBypass returns
WorkerBypass(w) ==
    /\ Running
    /\ wk[w].pc = "bypass"
    /\ \E o \in Outcomes :
        LET me == wk[w]
        IN  IF BypassSucceeds(o)
            THEN LET res == criticalBypassResult(TaskURL(me), o)
                 IN  /\ wk' = [wk EXCEPT ![w].pc = "sendBypass", ![w].pending = res,
                                         ![w].bypassStatus = o.StatusCode]
                     /\ stats' = CountSecret(stats, res)
            ELSE /\ wk' = [wk EXCEPT ![w] =
                           AfterBypass([me EXCEPT !.bypassStatus = o.StatusCode])]
                 /\ stats' = stats
    /\ UNCHANGED <<call, server, config, words, taskChan, taskClosed, resultChan, resultClosed,
                   newTaskChan, newTaskClosed, scannedDirs, results,
                   seeder, manager, collector, closer, mainPc, panicked, obs>>

\* `results <- *bypassResult`, then the first mutation is requested
WorkerSendBypass(w) ==
    /\ Running
    /\ wk[w].pc = "sendBypass"
    /\ SendResult(w, wk[w].pending, "bypass", NextMutation([wk[w] EXCEPT !.idx = 0]), obs)
    /\ UNCHANGED <<call, server, config, words, taskChan, taskClosed, resultClosed,
                   newTaskChan, newTaskClosed, stats, scannedDirs, results,
                   seeder, manager, collector, closer, mainPc>>

\* the URL of mutation idx of the worker's task
MutatedURL(me) ==
    BuildURL(me.task.TargetURL, generateMutations(me.task.Path)[me.idx])

\* whether the result of a mutation is emitted
MutationEmitted(me, o) ==
    /\ ~IsError(o)
    /\ isInteresting(makeResult(MutatedURL(me), "GET", o))
    /\ ~matchesSignature(makeResult(MutatedURL(me), "GET", o), SignaturesFor(me))

\* the GET of mutation idx returns
WorkerMutate(w) ==
    /\ Running
    /\ wk[w].pc = "mutate"
    /\ \E o \in Outcomes :
        LET me == wk[w]
        IN  IF MutationEmitted(me, o)
            THEN LET res == WithSecrets(makeResult(MutatedURL(me), "GET", o), o.Matches)
                 IN  /\ me.artifacts < MaxArtifacts
                     /\ wk' = [wk EXCEPT ![w].pc = "sendMutation", ![w].pending = res,
                                         ![w].artifacts = @ + 1,
                                         ![w].probed = @ + 1]
                     /\ stats' = CountSecret(stats, res)
            ELSE /\ wk' = [wk EXCEPT ![w] =
                           NextMutation([me EXCEPT !.probed = @ + 1])]
                 /\ stats' = stats
    /\ UNCHANGED <<call, server, config, words, taskChan, taskClosed, resultChan, resultClosed,
                   newTaskChan, newTaskClosed, scannedDirs, results,
                   seeder, manager, collector, closer, mainPc, panicked, obs>>

\* `results <- *mutatedResult`, then the next mutation
WorkerSendMutation(w) ==
    /\ Running
    /\ wk[w].pc = "sendMutation"
    /\ SendResult(w, wk[w].pending, "mutation", NextMutation(wk[w]), obs)
    /\ UNCHANGED <<call, server, config, words, taskChan, taskClosed, resultClosed,
                   newTaskChan, newTaskClosed, stats, scannedDirs, results,
                   seeder, manager, collector, closer, mainPc>>

\* the directory request the worker submits for its task
DirectoryRequest(me) ==
    Task(me.task.TargetURL, extractPath(TaskURL(me)), me.task.Depth + 1)

\* `newTasks <- Task{...}`
WorkerSendNewTask(w) ==
    /\ Running
    /\ wk[w].pc = "sendNew"
    /\ IF newTaskClosed
       THEN /\ panicked' = TRUE
            /\ UNCHANGED <<wk, newTaskChan>>
       ELSE /\ Len(newTaskChan) < ChanCap
            /\ newTaskChan' = Append(newTaskChan, DirectoryRequest(wk[w]))
            /\ wk' = [wk EXCEPT ![w].pc = "sendPrimary"]
            /\ UNCHANGED panicked
    /\ UNCHANGED <<call, server, config, words, taskChan, taskClosed, resultChan, resultClosed,
                   newTaskClosed, stats, scannedDirs, results,
                   seeder, manager, collector, closer, mainPc, obs>>

\* a worker that submits the directory once more after the send of its Result
AfterPrimaryResubmits(me) ==
    IF SubmitsDirectory(me) THEN [me EXCEPT !.pc = "sendNew"] ELSE Idle(me)

\* the worker after `results <- *result`: the loop body is over
AfterPrimary(me) == Idle(me)

\* `results <- *result`, the end of the loop body
WorkerSendPrimary(w) ==
    /\ Running
    /\ wk[w].pc = "sendPrimary"
    /\ SendResult(w, wk[w].result, "primary", AfterPrimary(wk[w]), obs)
    /\ UNCHANGED <<call, server, config, words, taskChan, taskClosed, resultClosed,
                   newTaskChan, newTaskClosed, stats, scannedDirs, results,
                   seeder, manager, collector, closer, mainPc>>


(***************************************************************************)
(* The seeder ("Feed initial tasks to workers").                           *)
(***************************************************************************)
\* the seeder turns to target ti, or is finished
SeederAtTarget(ti) ==
    IF ti > Len(targets)
    THEN [pc |-> "done", ti |-> ti, ci |-> 1, wi |-> 1, ei |-> 0]
    ELSE [pc |-> "calib", ti |-> ti, ci |-> 1, wi |-> 1, ei |-> 0]

\* the goroutine is scheduled: its first target, its first calibration request
SeederStart ==
    /\ Running
    /\ seeder.pc = "start"
    /\ seeder' = SeederAtTarget(1)
    /\ UNCHANGED <<call, server, config, words, taskChan, taskClosed, resultChan, resultClosed,
                   newTaskChan, newTaskClosed, stats, scannedDirs, results, wk,
                   manager, collector, closer, mainPc, panicked, obs>>

\* a calibration request of the seeder returns; the signatures are discarded
SeederCalibrate ==
    /\ Running
    /\ seeder.pc = "calib"
    /\ \E o \in CalibrationOutcomes :
        seeder' = IF seeder.ci < NumCalibrationPaths
                  THEN [seeder EXCEPT !.ci = @ + 1]
                  ELSE IF Len(words) = 0
                  THEN SeederAtTarget(seeder.ti + 1)
                  ELSE [seeder EXCEPT !.pc = "send", !.ci = 1, !.wi = 1, !.ei = 0]
    /\ obs' = [obs EXCEPT !.calibrations = @ + 1]
    /\ UNCHANGED <<call, server, config, words, taskChan, taskClosed, resultChan, resultClosed,
                   newTaskChan, newTaskClosed, stats, scannedDirs, results, wk,
                   manager, collector, closer, mainPc, panicked>>

\* the word, or the word with extension ei, of position (wi, ei) of the loops
\* over the words and the extensions
Candidate(wi, ei) ==
    IF ei = 0 THEN words[wi] ELSE words[wi] \o config.Extensions[ei]

\* a seeder that sends the word again in place of the word with extension
SeedTaskWordOnly == Task(targets[seeder.ti], words[seeder.wi], 1)

\* the seed task of the seeder's position
SeedTask == Task(targets[seeder.ti], Candidate(seeder.wi, seeder.ei), 1)

\* `taskChan <- task` of the seeder; a send on a closed channel panics
SeederSend ==
    /\ Running
    /\ seeder.pc = "send"
    /\ IF taskClosed
       THEN /\ panicked' = TRUE
            /\ UNCHANGED <<taskChan, seeder, obs>>
       ELSE /\ Len(taskChan) < ChanCap
            /\ taskChan' = Append(taskChan, SeedTask)
            /\ seeder' = IF seeder.ei < Len(config.Extensions)
                         THEN [seeder EXCEPT !.ei = @ + 1]
                         ELSE IF seeder.wi < Len(words)
                         THEN [seeder EXCEPT !.wi = @ + 1, !.ei = 0]
                         ELSE SeederAtTarget(seeder.ti + 1)
            /\ obs' = [obs EXCEPT !.dispatched = @ + 1, !.seeded = @ + 1]
            /\ UNCHANGED panicked
    /\ UNCHANGED <<call, server, config, words, taskClosed, resultChan, resultClosed,
                   newTaskChan, newTaskClosed, stats, scannedDirs, results, wk,
                   manager, collector, closer, mainPc>>

(***************************************************************************)
(* The recursive task manager (started when config.MaxDepth > 0).          *)
(***************************************************************************)
\* a manager that does not consult scannedDirs
AcceptsWithoutDedup(newTask) == newTask.Depth <= config.MaxDepth

\* whether the manager expands the request: not seen before, and within depth
Accepts(newTask) ==
    /\ newTask.Path \notin MapGet(scannedDirs, newTask.TargetURL, {})
    /\ newTask.Depth <= config.MaxDepth

\* `for newTask := range newTaskChan`: a request is received and checked
\* against scannedDirs under dirMutex, or the channel is closed and drained
\* and the goroutine returns (wg.Done)
ManagerReceive ==
    /\ Running
    /\ manager.pc = "recv"
    /\ IF Len(newTaskChan) > 0
       THEN LET newTask == Head(newTaskChan)
                seen == MapGet(scannedDirs, newTask.TargetURL, {})
                key == <<newTask.TargetURL, newTask.Path>>
            IN  /\ newTaskChan' = Tail(newTaskChan)
                /\ IF Accepts(newTask)
                   THEN /\ scannedDirs' = MapPut(scannedDirs, newTask.TargetURL,
                                                 seen \cup {newTask.Path})
                        /\ obs' = [obs EXCEPT
                                      !.requests = MapPut(@, key, MapGet(@, key, 0) + 1),
                                      !.expansions = MapPut(@, key, MapGet(@, key, 0) + 1)]
                        /\ manager' = IF Len(words) > 0
                                      THEN [pc |-> "send", newTask |-> newTask,
                                            wi |-> 1, ei |-> 0]
                                      ELSE manager
                   ELSE /\ scannedDirs' = MapPut(scannedDirs, newTask.TargetURL, seen)
                        /\ obs' = [obs EXCEPT
                                      !.requests = MapPut(@, key, MapGet(@, key, 0) + 1)]
                        /\ UNCHANGED manager
       ELSE /\ newTaskClosed
            /\ manager' = [manager EXCEPT !.pc = "done"]
            /\ UNCHANGED <<newTaskChan, scannedDirs, obs>>
    /\ UNCHANGED <<call, server, config, words, taskChan, taskClosed, resultChan, resultClosed,
                   newTaskClosed, stats, results, wk,
                   seeder, collector, closer, mainPc, panicked>>

\* a manager that increments the depth of the request once more
ChildTaskDeeper ==
    Task(manager.newTask.TargetURL,
         TrimSuffixSlash(manager.newTask.Path) \o <<Slash>>
             \o Candidate(manager.wi, manager.ei),
         manager.newTask.Depth + 1)

\* the child task of the manager's position
ChildTask ==
    Task(manager.newTask.TargetURL,
         TrimSuffixSlash(manager.newTask.Path) \o <<Slash>>
             \o Candidate(manager.wi, manager.ei),
         manager.newTask.Depth)

\* a manager that does not count the tasks it sends
CountTaskNot(st) == st

\* atomic.AddInt64(&stats.Total, 1)
CountTask(st) == [st EXCEPT !.Total = @ + 1]

\* `taskChan <- task` of the manager: from here on a worker can receive the
\* task, while the manager has yet to count it
ManagerSend ==
    /\ Running
    /\ manager.pc = "send"
    /\ IF taskClosed
       THEN /\ panicked' = TRUE
            /\ UNCHANGED <<taskChan, manager, obs>>
       ELSE /\ Len(taskChan) < ChanCap
            /\ taskChan' = Append(taskChan, ChildTask)
            /\ manager' = [manager EXCEPT !.pc = "count"]
            /\ obs' = [obs EXCEPT !.dispatched = @ + 1]
            /\ UNCHANGED panicked
    /\ UNCHANGED <<call, server, config, words, taskClosed, resultChan, resultClosed,
                   newTaskChan, newTaskClosed, stats, scannedDirs, results, wk,
                   seeder, collector, closer, mainPc>>

\* `atomic.AddInt64(&stats.Total, 1)` after the send, then the next task of
\* the loops, or the next request
ManagerCount ==
    /\ Running
    /\ manager.pc = "count"
    /\ stats' = CountTask(stats)
    /\ manager' = IF manager.ei < Len(config.Extensions)
                  THEN [manager EXCEPT !.pc = "send", !.ei = @ + 1]
                  ELSE IF manager.wi < Len(words)
                  THEN [manager EXCEPT !.pc = "send", !.wi = @ + 1, !.ei = 0]
                  ELSE [pc |-> "recv", newTask |-> NoTask, wi |-> 1, ei |-> 0]
    /\ UNCHANGED <<call, server, config, words, taskChan, taskClosed, resultChan,
                   resultClosed, newTaskChan, newTaskClosed, scannedDirs, results, wk,
                   seeder, collector, closer, mainPc, panicked, obs>>

(***************************************************************************)
(* The result collector, the closing goroutine, and main.                  *)
(***************************************************************************)
\* `for result := range resultChan`: a result is appended to results, or the
\* channel is closed and drained and the goroutine returns (wg.Done)
CollectorReceive ==
    /\ Running
    /\ collector = "recv"
    /\ IF Len(resultChan) > 0
       THEN /\ resultChan' = Tail(resultChan)
            /\ results' = results + 1
            /\ UNCHANGED collector
       ELSE /\ resultClosed
            /\ collector' = "done"
            /\ UNCHANGED <<resultChan, results>>
    /\ UNCHANGED <<call, server, config, words, taskChan, taskClosed, resultClosed,
                   newTaskChan, newTaskClosed, stats, scannedDirs, wk,
                   seeder, manager, closer, mainPc, panicked, obs>>

\* workerWG.Wait() has returned: every worker has called wg.Done
WorkersDone == \A w \in Workers : wk[w].pc = "done"

\* workerWG.Wait(); close(taskChan); close(resultChan); close(newTaskChan)
CloseChannels ==
    /\ Running
    /\ closer = "wait"
    /\ WorkersDone
    /\ closer' = "done"
    /\ taskClosed' = TRUE
    /\ resultClosed' = TRUE
    /\ newTaskClosed' = (config.MaxDepth > 0)
    /\ UNCHANGED <<call, server, config, words, taskChan, resultChan, newTaskChan, stats,
                   scannedDirs, results, wk, seeder, manager, collector,
                   mainPc, panicked, obs>>

\* wg.Wait() of main returns: the collector and the manager have returned;
\* main prints, saves and returns, which ends the process
MainReturn ==
    /\ Running
    /\ collector = "done"
    /\ manager.pc \in {"none", "done"}
    /\ mainPc' = "exited"
    /\ UNCHANGED <<call, server, config, words, taskChan, taskClosed, resultChan, resultClosed,
                   newTaskChan, newTaskClosed, stats, scannedDirs, results, wk,
                   seeder, manager, collector, closer, panicked, obs>>

Next ==
    \/ \E w \in Workers : WorkerStart(w)
    \/ \E w \in Workers : WorkerCalibrate(w)
    \/ \E w \in Workers : WorkerReceive(w)
    \/ \E w \in Workers : WorkerPrimary(w)
    \/ \E w \in Workers : WorkerSleep(w)
    \/ \E w \in Workers : WorkerMethod(w)
    \/ \E w \in Workers : WorkerSendMethod(w)
    \/ \E w \in Workers : WorkerBypass(w)
    \/ \E w \in Workers : WorkerSendBypass(w)
    \/ \E w \in Workers : WorkerMutate(w)
    \/ \E w \in Workers : WorkerSendMutation(w)
    \/ \E w \in Workers : WorkerSendNewTask(w)
    \/ \E w \in Workers : WorkerSendPrimary(w)
    \/ SeederStart
    \/ SeederCalibrate
    \/ SeederSend
    \/ ManagerReceive
    \/ ManagerSend
    \/ ManagerCount
    \/ CollectorReceive
    \/ CloseChannels
    \/ MainReturn

Spec == Init /\ [][Next]_vars

(***************************************************************************)
(* matchesSignature and detectWAF taken alone: a call with arguments drawn  *)
(* from the sets below, and its return.                                    *)
(***************************************************************************)
\* body lengths around the 5% band of the signature sizes 20, 21 and 100
ResultSizes == {0, 1, 19, 20, 21, 22, 95, 96, 100, 104, 105, 106}
SignatureSizes == {0, 20, 21, 100}
ResultStatuses == {200, 404}

\* the lists performCalibration can return: up to NumCalibrationPaths
\* signatures
SignatureLists ==
    UNION {[1..n -> [StatusCode : ResultStatuses, Size : SignatureSizes]] :
              n \in 0..NumCalibrationPaths}

\* Server header values, header names and cookie names of the responses
ServerValues ==
    { <<>>, <<"n", "g", "i", "n", "x">>, <<"c", "l", "o", "u", "d", "f", "l", "a", "r", "e">>, <<"a", "k", "a", "m", "a", "i", "g", "h", "o", "s", "t">>,
      <<"S", "u", "c", "u", "r", "i", "/", "C", "l", "o", "u", "d", "p", "r", "o", "x", "y">> }
OtherHeaderNames ==
    { <<"C", "o", "n", "t", "e", "n", "t", "-", "T", "y", "p", "e">>, <<"X", "-", "A", "m", "z", "-", "C", "f", "-", "I", "d">>, <<"X", "-", "I", "i", "n", "f", "o">>,
      <<"X", "-", "W", "f", "-", "R", "u", "l", "e">> }
CookieNames ==
    { <<"s", "e", "s", "s", "i", "o", "n">>, <<"_", "_", "c", "f", "d", "u", "i", "d">>, <<"B", "I", "G", "i", "p", "S", "e", "r", "v", "e", "r", "p", "o", "o", "l">>,
      <<"b", "i", "g", "i", "p", "s", "e", "r", "v", "e", "r", "p", "o", "o", "l">> }

matchesSignatureCalls ==
    { [NoCall EXCEPT !.fn = "matchesSignature",
                     !.result = makeResult(BuildURL(Target1, WordA), "GET",
                                           Resp(st, sz, {})),
                     !.signatures = sigs] :
         st \in ResultStatuses, sz \in ResultSizes, sigs \in SignatureLists }

detectWAFCalls ==
    { [NoCall EXCEPT !.fn = "detectWAF",
                     !.resp = [Server |-> sv, Headers |-> hs, Cookies |-> cs]] :
         sv \in ServerValues, hs \in SUBSET OtherHeaderNames,
         cs \in SUBSET CookieNames }

\* no scan is running
NotScanning ==
    /\ server = NotFound
    /\ config = [Threads |-> 0, MaxDepth |-> 0, Extensions |-> <<>>]
    /\ words = <<>>
    /\ taskChan = <<>> /\ taskClosed = FALSE
    /\ resultChan = <<>> /\ resultClosed = FALSE
    /\ newTaskChan = <<>> /\ newTaskClosed = FALSE
    /\ stats = [ Total |-> 0, Processed |-> 0, Found |-> 0, Errors |-> 0,
                 Secrets |-> 0, WAFHits |-> 0 ]
    /\ scannedDirs = [t \in {} |-> {}]
    /\ results = 0
    /\ wk = <<>>
    /\ seeder = [pc |-> "start", ti |-> 1, ci |-> 1, wi |-> 1, ei |-> 0]
    /\ manager = [pc |-> "none", newTask |-> NoTask, wi |-> 1, ei |-> 0]
    /\ collector = "recv"
    /\ closer = "wait"
    /\ mainPc = "wait"
    /\ panicked = FALSE
    /\ obs = [ dispatched |-> 0, seeded |-> 0, emitted |-> 0, secondary |-> 0,
               secretsSent |-> 0, wafSent |-> 0,
               matched |-> 0, uninteresting |-> 0, methodHits |-> 0,
               calibrations |-> 0, failures |-> 0,
               requests |-> [d \in {} |-> 0],
               expansions |-> [d \in {} |-> 0] ]

InitCalls ==
    /\ NotScanning
    /\ call \in matchesSignatureCalls \cup detectWAFCalls

\* matchesSignature returns
ReturnMatchesSignature ==
    /\ call.fn = "matchesSignature"
    /\ ~call.returned
    /\ call' = [call EXCEPT !.returned = TRUE,
                            !.matched = matchesSignature(call.result, call.signatures)]
    /\ UNCHANGED <<server, config, words, taskChan, taskClosed, resultChan, resultClosed,
                   newTaskChan, newTaskClosed, stats, scannedDirs, results, wk,
                   seeder, manager, collector, closer, mainPc, panicked, obs>>

\* detectWAF returns
ReturnDetectWAF ==
    /\ call.fn = "detectWAF"
    /\ ~call.returned
    /\ call' = [call EXCEPT !.returned = TRUE, !.waf = detectWAF(call.resp)]
    /\ UNCHANGED <<server, config, words, taskChan, taskClosed, resultChan, resultClosed,
                   newTaskChan, newTaskClosed, stats, scannedDirs, results, wk,
                   seeder, manager, collector, closer, mainPc, panicked, obs>>

NextCalls ==
    \/ ReturnMatchesSignature
    \/ ReturnDetectWAF

FunctionSpec == InitCalls /\ [][NextCalls]_vars

(***************************************************************************)
(* Properties.                                                             *)
(***************************************************************************)
\* the messages in flight on resultChan
Sent == {resultChan[i] : i \in 1..Len(resultChan)}

\* the calibration set the worker that sent the message holds for its target
SignaturesOfSender(m) == MapGet(wk[m.by].targetSignatures, m.task.TargetURL, <<>>)

\* C1: no Result sent on resultChan matches a calibration signature of its
\* target: same status, and a size within 5% of a non-zero signature size
NoFindingMatchesCalibration ==
    \A m \in Sent : ~matchesSignature(m.res, SignaturesOfSender(m))

\* C2: a directory (target, path) is expanded at most once, and scannedDirs
\* only grows: a path recorded for a target stays recorded
DirectoryExpandedOnce ==
    /\ [](\A d \in DOMAIN obs.expansions : obs.expansions[d] <= 1)
    /\ [][\A t \in DOMAIN scannedDirs :
             /\ t \in DOMAIN scannedDirs'
             /\ scannedDirs[t] \subseteq scannedDirs'[t]]_vars

\* C2, its case: two workers asked for the same directory, the manager
\* expanded it once and dropped the second request
DuplicateRequestDropped ==
    \E d \in DOMAIN obs.requests :
        /\ obs.requests[d] >= 2
        /\ MapGet(obs.expansions, d, 0) = 1
        /\ d[2] \in MapGet(scannedDirs, d[1], {})

\* the worker holds a task: it is between the receive and the end of the
\* iteration
HoldsTask(w) == wk[w].task # NoTask

\* C3: a worker that holds a task has built the calibration set of every
\* target, the task's own included, and a set that is built never changes
CalibratedBeforeConsuming ==
    /\ [](\A w \in Workers :
            HoldsTask(w) =>
                /\ wk[w].ti > Len(targets)
                /\ wk[w].signatures = <<>>
                /\ wk[w].task.TargetURL \in DOMAIN wk[w].targetSignatures)
    /\ [][\A w \in Workers : \A t \in DOMAIN wk[w].targetSignatures :
             /\ t \in DOMAIN wk'[w].targetSignatures
             /\ wk'[w].targetSignatures[t] = wk[w].targetSignatures[t]]_vars

\* C3, its case: a worker compares the response of a task with a calibration
\* set of NumCalibrationPaths signatures
ConsumesWithFullCalibration ==
    \E w \in Workers :
        /\ wk[w].pc = "primary"
        /\ Len(SignaturesFor(wk[w])) = NumCalibrationPaths

\* C4: a scan with workers always completes: whenever no goroutine can take
\* a step, main has returned
ScanCompletes ==
    config.Threads >= 1 => (mainPc = "exited" \/ ENABLED Next)

\* C5: the number of Results sent on resultChan is at most the number of
\* tasks sent on taskChan
FindingsAtMostTasks == obs.emitted <= obs.dispatched

\* C5, as it holds: the Results that are neither bypass nor mutation
\* Results (one per task at most: its primary Result or the Result of its
\* method fuzzing) are at most as many as the tasks sent on taskChan
TaskFindingsAtMostTasks == obs.emitted - obs.secondary <= obs.dispatched

\* C5, its case: every task sent has yielded its own Result, and a bypass
\* Result came in addition
BypassFindingBesidePrimary ==
    /\ obs.dispatched >= 1
    /\ obs.emitted - obs.secondary = obs.dispatched
    /\ obs.secondary >= 1

\* no worker is in the middle of a task
Quiescent == \A w \in Workers : wk[w].pc \in {"start", "calib", "recv", "done"}

\* C6: when no worker is in the middle of a task, processed is the sum of
\* found, errors and the tasks dropped (calibration match, or a status that
\* is not interesting)
ProcessedIsPartitioned ==
    Quiescent =>
        stats.Processed = stats.Found + stats.Errors
                          + obs.matched + obs.uninteresting

\* C6, as it holds: the tasks dropped are those with a calibration match or
\* an uninteresting status whose method fuzzing sent no Result; a 405 task
\* whose method fuzzing succeeds is counted in found
ProcessedIsPartitionedByOutcome ==
    Quiescent =>
        stats.Processed = stats.Found + stats.Errors
                          + obs.matched + (obs.uninteresting - obs.methodHits)

\* C6, its case: the workers are between tasks after a found task, a failed
\* task, and a 405 task whose method fuzzing succeeded
AllOutcomesCounted ==
    /\ Quiescent
    /\ obs.methodHits >= 1
    /\ stats.Found >= 1
    /\ stats.Processed >= 2

\* the HTTP requests in flight: the workers' and the seeding goroutine's
InFlight ==
    Cardinality({w \in Workers :
                    wk[w].pc \in {"calib", "primary", "method", "bypass", "mutate"}})
    + (IF seeder.pc = "calib" THEN 1 ELSE 0)

\* C7: with N >= 1 workers, at most N HTTP requests are in flight
InFlightAtMostThreads == config.Threads >= 1 => InFlight <= config.Threads

\* C8: a Result sent has SecretFound exactly when its SecretTypes is not empty
SecretFlagIffTypes ==
    \A m \in Sent : m.res.SecretFound <=> Len(m.res.SecretTypes) > 0

\* C8, its case: a bypass Result with detected secrets has been sent
SecretReportedOnBypass ==
    \E m \in Sent :
        /\ m.kind = "bypass"
        /\ m.res.SecretFound
        /\ Len(m.res.SecretTypes) = 2

\* C9: a critical Result has method GET+BYPASS, POST, PUT, DELETE or PATCH,
\* and a Result with method GET is not critical
CriticalOnlyFromBypassOrMethod ==
    \A m \in Sent :
        /\ m.res.Critical =>
              m.res.Method \in {"GET+BYPASS", "POST", "PUT", "DELETE", "PATCH"}
        /\ m.res.Method = "GET" => ~m.res.Critical

\* C9, its case: a critical bypass Result and a GET Result are in flight
CriticalBypassSent ==
    /\ \E m \in Sent : m.res.Critical /\ m.res.Method = "GET+BYPASS"
    /\ \E m \in Sent : m.res.Method = "GET"

\* C10: with MaxDepth = 0 no worker sends on newTaskChan and the manager
\* enqueues nothing: every task is a seed task
NoRecursionAtDepthZero ==
    config.MaxDepth = 0 =>
        /\ newTaskChan = <<>>
        /\ \A w \in Workers : wk[w].pc # "sendNew"
        /\ manager.pc = "none"
        /\ DOMAIN obs.requests = {}
        /\ DOMAIN scannedDirs = {}
        /\ stats.Total = SeedCount(config, words)
        /\ obs.dispatched <= SeedCount(config, words)

\* C10, its case: with MaxDepth = 0 a directory was found and reported
DirectoryFoundAtDepthZero ==
    /\ config.MaxDepth = 0
    /\ \E m \in Sent : m.kind = "primary" /\ isDirectory(m.res)

\* C11: a worker submits a directory exactly when the depth of its task is
\* below MaxDepth, with that depth plus one; a directory found at depth
\* MaxDepth goes to the send of its Result without a submission
DirectorySubmittedBelowMaxDepth ==
    /\ [](\A i \in 1..Len(newTaskChan) :
             newTaskChan[i].Depth >= 2 /\ newTaskChan[i].Depth <= config.MaxDepth)
    /\ [](\A w \in Workers :
             wk[w].pc = "sendNew" =>
                 /\ wk[w].task.Depth < config.MaxDepth
                 /\ isInteresting(wk[w].result)
                 /\ isDirectory(wk[w].result))
    /\ [][\A w \in Workers :
             /\ (wk[w].pc = "sendNew" /\ wk'[w].pc # "sendNew") =>
                   /\ newTaskChan' =
                         Append(newTaskChan,
                                Task(wk[w].task.TargetURL, extractPath(TaskURL(wk[w])),
                                     wk[w].task.Depth + 1))
                   /\ wk'[w].pc = "sendPrimary"
                   /\ wk'[w].result = wk[w].result
             /\ (wk[w].pc # "sendPrimary" /\ wk'[w].pc = "sendPrimary"
                   /\ isDirectory(wk'[w].result)
                   /\ wk'[w].task.Depth < config.MaxDepth) =>
                   wk[w].pc = "sendNew"
             /\ (wk[w].pc = "sendPrimary" /\ wk'[w].pc # "sendPrimary") =>
                   resultChan' =
                       Append(resultChan, Msg(wk[w].result, "primary", w, wk[w].task))
         ]_vars

\* C11, its case: a directory found at depth MaxDepth = 2, below a directory
\* of depth 1 that was submitted and expanded, has been reported
DirectoryReportedAtMaxDepth ==
    /\ config.MaxDepth = 2
    /\ \E m \in Sent :
          /\ m.kind = "primary"
          /\ m.task.Depth = 2
          /\ isDirectory(m.res)

\* the tasks on taskChan and the tasks the workers hold
TasksInPlay ==
    {taskChan[i] : i \in 1..Len(taskChan)}
        \cup {wk[w].task : w \in {v \in Workers : HoldsTask(v)}}

\* the number of segments of a path: a seed path has one, and the manager
\* adds one to the path of the directory
Segments(path) ==
    Cardinality({i \in 1..Len(path) :
                    path[i] # Slash /\ (i = 1 \/ path[i - 1] = Slash)})

\* C12: a task has a depth between 1 and max(1, MaxDepth), which is the
\* number of segments of its path (1 for a seed task, the parent's plus one
\* for a child task), and a directory that is expanded has fewer than
\* MaxDepth segments, which bounds the number of expansions
TaskDepthWithinBound ==
    /\ \A t \in TasksInPlay :
          /\ t.Depth >= 1
          /\ t.Depth <= (IF config.MaxDepth > 1 THEN config.MaxDepth ELSE 1)
          /\ t.Depth = Segments(t.Path)
    /\ \A d \in DOMAIN obs.expansions : Segments(d[2]) < config.MaxDepth
    /\ manager.pc = "send" => manager.newTask.Depth <= config.MaxDepth

\* C12, its case: a child task of depth MaxDepth = 2 is on taskChan
ChildTaskAtMaxDepth ==
    /\ config.MaxDepth = 2
    /\ \E i \in 1..Len(taskChan) :
          taskChan[i].Depth = 2 /\ Segments(taskChan[i].Path) = 2

\* the worker is past `if isInteresting(result)`, on its way to
\* `results <- *result`
Reporting(w) ==
    wk[w].pc \in {"bypass", "sendBypass", "mutate", "sendMutation", "sendNew",
                  "sendPrimary"}

\* C13: a worker whose calibration set for the target is empty drops no task
\* as a calibration match: a primary response is dropped only as a failure
\* or for its status, an interesting one is counted and kept until its
\* Result is sent
EmptyCalibrationFiltersNothing ==
    /\ [](\A w \in Workers : Reporting(w) => isInteresting(wk[w].result))
    /\ [][\A w \in Workers :
             (HoldsTask(w) /\ SignaturesFor(wk[w]) = <<>> /\ wk'[w] # wk[w]) =>
                /\ obs'.matched = obs.matched
                /\ wk[w].pc = "primary" =>
                      \/ /\ obs'.failures = obs.failures + 1
                         /\ ~HoldsTask(w)'
                      \/ /\ wk'[w].result.StatusCode = 405
                         /\ wk'[w].pc = "method"
                      \/ /\ obs'.uninteresting = obs.uninteresting + 1
                         /\ ~HoldsTask(w)'
                      \/ /\ Reporting(w)'
                         /\ stats'.Found = stats.Found + 1
                /\ Reporting(w) =>
                      \/ Reporting(w)' /\ wk'[w].result = wk[w].result
                      \/ /\ wk[w].pc = "sendPrimary"
                         /\ resultChan' =
                               Append(resultChan,
                                      Msg(wk[w].result, "primary", w, wk[w].task))
         ]_vars

\* C13, its case: a worker whose calibration requests all failed has sent
\* the Result of the page that a calibration would have recorded
ReportedWithEmptyCalibration ==
    \E m \in Sent :
        /\ m.kind = "primary"
        /\ m.res.StatusCode = 200 /\ m.res.Size = 100
        /\ m.task.TargetURL \in DOMAIN wk[m.by].targetSignatures
        /\ SignaturesOfSender(m) = <<>>

\* the HTTP requests answered so far to a scan that makes no secondary
\* request: the calibration requests and the primary requests
ProbesAnswered == obs.calibrations + stats.Processed

\* C14: on a target that answers every path with the same 404 page, with a
\* wordlist of two entries, the scan makes no more than 3 calibration
\* requests per target and one request per seed task (5 requests), makes no
\* secondary request and sends no Result
ProbesAreCalibrationPlusSeeds ==
    (server = NotFound /\ Len(words) = 2) =>
        /\ ProbesAnswered <= NumCalibrationPaths * Len(targets) + SeedCount(config, words)
        /\ \A w \in Workers : wk[w].pc \notin {"method", "bypass", "mutate"}
        /\ obs.emitted = 0

\* C15: a primary 405 that is not a calibration match is followed by POST,
\* PUT, DELETE, PATCH in that order; the first answer 200, 201 or 204 ends
\* the probing and sends one critical Result with that method; when none
\* succeeds nothing is sent; no Result has status 405
MethodFuzzingOn405 ==
    /\ [](\A m \in Sent :
             /\ m.res.StatusCode # 405
             /\ m.kind = "method" =>
                   /\ m.res.Critical
                   /\ m.res.Method \in {"POST", "PUT", "DELETE", "PATCH"}
                   /\ m.res.StatusCode \in {200, 201, 204}
                   /\ m.res.URL = BuildURL(m.task.TargetURL, m.task.Path))
    /\ [](\A w \in Workers :
             wk[w].pc \in {"method", "sendMethod"} =>
                 /\ wk[w].result.StatusCode = 405
                 /\ ~matchesSignature(wk[w].result, SignaturesFor(wk[w]))
                 /\ wk[w].idx \in 1..4)
    /\ [][\A w \in Workers :
             /\ (wk[w].pc = "primary" /\ wk'[w].pc = "method") => wk'[w].idx = 1
             /\ (wk[w].pc = "primary" /\ wk'[w].result.StatusCode = 405) =>
                   wk'[w].pc = "method"
             /\ (wk[w].pc = "method" /\ wk'[w] # wk[w]) =>
                   /\ resultChan' = resultChan
                   /\ \/ /\ wk'[w].pc = "sendMethod"
                         /\ wk'[w].idx = wk[w].idx
                         /\ wk'[w].pending.Method =
                               <<"POST", "PUT", "DELETE", "PATCH">>[wk[w].idx]
                         /\ wk'[w].pending.Critical
                         /\ wk'[w].pending.StatusCode \in {200, 201, 204}
                      \/ /\ wk'[w].pc = "method"
                         /\ wk[w].idx < 4
                         /\ wk'[w].idx = wk[w].idx + 1
                      \/ /\ wk[w].idx = 4
                         /\ wk'[w].pc = "recv"
                         /\ stats'.Found = stats.Found
             /\ (wk[w].pc = "sendMethod" /\ wk'[w] # wk[w]) =>
                   /\ wk'[w].pc = "recv"
                   /\ resultChan' =
                         Append(resultChan, Msg(wk[w].pending, "method", w, wk[w].task))
         ]_vars

\* C15, its case: DELETE was the first method to succeed, with 204, and its
\* Result has been sent
DeleteAcceptedAfter405 ==
    \E m \in Sent :
        /\ m.kind = "method"
        /\ m.res.Method = "DELETE"
        /\ m.res.StatusCode = 204

\* the URL of a bypass Result for a task
BypassURL(task) ==
    BuildURL(task.TargetURL, task.Path) \o <<" ", "[", "B", "Y", "P", "A", "S", "S", "]">>

\* C16: a primary 401 or 403 that is not a calibration match is followed by
\* the bypass request; a critical Result with method GET+BYPASS and the
\* URL suffix " [BYPASS]" is sent exactly when the bypass answer is 200 or
\* 302; the worker keeps the primary Result until it is sent, in both cases
BypassOn401And403 ==
    /\ [](\A m \in Sent :
             /\ m.kind = "bypass" <=> m.res.Method = "GET+BYPASS"
             /\ m.kind = "bypass" =>
                   /\ m.res.Critical
                   /\ m.res.StatusCode \in {200, 302}
                   /\ m.res.URL = BypassURL(m.task))
    /\ [](\A w \in Workers :
             /\ wk[w].pc = "bypass" =>
                   /\ wk[w].result.StatusCode \in {401, 403}
                   /\ ~matchesSignature(wk[w].result, SignaturesFor(wk[w]))
             /\ wk[w].pc \in {"sendBypass", "mutate", "sendMutation"} =>
                   wk[w].bypassStatus \in {200, 302})
    /\ [][\A w \in Workers :
             /\ (wk[w].pc = "primary" /\ wk'[w].result.StatusCode \in {401, 403}) =>
                   wk'[w].pc = "bypass"
             /\ (wk[w].pc = "bypass" /\ wk'[w] # wk[w]) =>
                   /\ resultChan' = resultChan
                   /\ wk'[w].result = wk[w].result
                   /\ IF wk'[w].bypassStatus \in {200, 302}
                      THEN /\ wk'[w].pc = "sendBypass"
                           /\ wk'[w].pending.Critical
                           /\ wk'[w].pending.Method = "GET+BYPASS"
                           /\ wk'[w].pending.StatusCode = wk'[w].bypassStatus
                           /\ wk'[w].pending.URL = BypassURL(wk[w].task)
                      ELSE wk'[w].pc \in {"sendNew", "sendPrimary"}
             /\ (wk[w].pc = "sendBypass" /\ wk'[w] # wk[w]) =>
                   /\ resultChan' =
                         Append(resultChan, Msg(wk[w].pending, "bypass", w, wk[w].task))
                   /\ Reporting(w)'
             /\ (Reporting(w) /\ wk[w].result.StatusCode \in {401, 403}
                   /\ wk'[w] # wk[w]) =>
                   \/ Reporting(w)' /\ wk'[w].result = wk[w].result
                   \/ /\ wk[w].pc = "sendPrimary"
                      /\ resultChan' =
                            Append(resultChan, Msg(wk[w].result, "primary", w, wk[w].task))
         ]_vars

\* C16, its case: the bypass of a 401 was answered 302 and its Result sent;
\* the worker is sending the Result of the 401
PrimarySentAfterBypass ==
    \E w \in Workers :
        /\ wk[w].pc = "sendPrimary"
        /\ wk[w].result.StatusCode = 401
        /\ wk[w].bypassStatus = 302

\* C17: with MaxDepth >= 2 the recursion runs to its end: when no goroutine
\* can take a step, no worker holds a directory whose Result is not sent,
\* no submitted directory waits on newTaskChan, the manager is not in the
\* middle of an expansion, no child task waits on taskChan and every Result
\* is collected
RecursionRunsToCompletion ==
    (config.MaxDepth >= 2 /\ ~ENABLED Next) =>
        /\ \A w \in Workers : ~(Reporting(w) /\ isDirectory(wk[w].result))
        /\ newTaskChan = <<>>
        /\ manager.pc # "send"
        /\ taskChan = <<>>
        /\ resultChan = <<>>

\* whether worker w, its calibration made, drops response o to a request
\* for path of target as a calibration match
Drops(w, target, path, o) ==
    matchesSignature(makeResult(BuildURL(target, path), "GET", o),
                     MapGet(wk[w].targetSignatures, target, <<>>))

\* C18: two workers that have made their calibration take the same decision
\* for the same task and the same response
WorkersDecideAlike ==
    \A w1, w2 \in Workers :
        (CalibrationComplete(wk[w1]) /\ CalibrationComplete(wk[w2])) =>
            \A i \in 1..Len(targets) : \A o \in server \ {TransportError} :
                Drops(w1, targets[i], WordA, o) <=> Drops(w2, targets[i], WordA, o)

\* C19: a primary request that fails is counted once in processed and once
\* in errors and has no other effect: no Result is sent, nothing is
\* submitted, nothing panics, and the worker is back at the receive (after
\* the pause, if one is due)
TransportErrorOnlyCounted ==
    /\ [](stats.Errors = obs.failures /\ stats.Errors <= stats.Processed)
    /\ [][\A w \in Workers :
             (wk[w].pc = "primary" /\ wk'[w] # wk[w]
                 /\ obs'.failures = obs.failures + 1) =>
                /\ stats'.Processed = stats.Processed + 1
                /\ stats'.Errors = stats.Errors + 1
                /\ stats'.Found = stats.Found
                /\ resultChan' = resultChan
                /\ newTaskChan' = newTaskChan
                /\ taskChan' = taskChan
                /\ wk'[w].pc \in {"recv", "sleep"}
                /\ ~HoldsTask(w)'
                /\ panicked' = panicked
                /\ mainPc' = mainPc
         ]_vars

\* C19, its case: a worker whose last request failed has consumed the next
\* task
NextTaskAfterTransportError ==
    \E w \in Workers :
        /\ wk[w].pc = "primary"
        /\ wk[w].consecutiveErrors >= 1
        /\ stats.Errors >= 1

\* C20: consecutiveErrors is between 0 and 4 when the worker pulls a task;
\* the worker pauses exactly when the counter has reached 5, and the pause
\* resets it; a failed request adds one to it and an answered request
\* resets it; a step of one worker leaves the other workers unchanged
ConsecutiveErrorsBackoff ==
    /\ [](\A w \in Workers :
             /\ wk[w].consecutiveErrors \in 0..5
             /\ wk[w].pc = "sleep" <=> wk[w].consecutiveErrors = 5)
    /\ [][\A w \in Workers :
             wk'[w] # wk[w] =>
                /\ \A v \in Workers \ {w} : wk'[v] = wk[v]
                /\ wk[w].pc = "primary" =>
                      IF obs'.failures = obs.failures + 1
                      THEN wk'[w].consecutiveErrors = wk[w].consecutiveErrors + 1
                      ELSE wk'[w].consecutiveErrors = 0
                /\ wk[w].pc = "sleep" =>
                      wk'[w].pc = "recv" /\ wk'[w].consecutiveErrors = 0
                /\ wk[w].pc \notin {"primary", "sleep"} =>
                      wk'[w].consecutiveErrors = wk[w].consecutiveErrors
         ]_vars

\* C20, its case: one worker pauses after five failures in a row while
\* another worker, with fewer failures, goes on
OneWorkerPauses ==
    \E w, v \in Workers :
        /\ wk[w].pc = "sleep"
        /\ wk[v].pc = "primary"
        /\ wk[v].consecutiveErrors < 5

\* C21: a worker whose reported primary response is a 401 or a 403 has, once
\* it is past the bypass block, requested every filename mutation of the
\* path of its task
MutationsProbedOnBypass ==
    \A w \in Workers :
        (wk[w].pc \in {"sendNew", "sendPrimary"} /\ TriggersBypass(wk[w].result)) =>
            wk[w].probed = Len(generateMutations(wk[w].task.Path))

\* C22: a Result sent with SecretFound has a 2xx status
SecretFindingsAre2xx ==
    \A m \in Sent :
        m.res.SecretFound => (m.res.StatusCode >= 200 /\ m.res.StatusCode < 300)

\* C23: every Result sent has a status in [200, 400) or 401 or 403; a
\* primary response with another status is dropped: the worker releases the
\* task without a send, and only a worker holding an interesting primary
\* Result reaches `results <- *result`
FindingsHaveInterestingStatus ==
    /\ [](\A m \in Sent :
             \/ m.res.StatusCode >= 200 /\ m.res.StatusCode < 400
             \/ m.res.StatusCode \in {401, 403})
    /\ [](\A w \in Workers :
             wk[w].pc = "sendPrimary" =>
                 \/ wk[w].result.StatusCode >= 200 /\ wk[w].result.StatusCode < 400
                 \/ wk[w].result.StatusCode \in {401, 403})
    /\ [][\A w \in Workers :
             (wk[w].pc = "primary" /\ wk'[w] # wk[w]
                 /\ obs'.uninteresting = obs.uninteresting + 1) =>
                /\ resultChan' = resultChan
                /\ newTaskChan' = newTaskChan
                /\ stats'.Found = stats.Found
                /\ wk'[w].pc = "recv"
                /\ ~HoldsTask(w)'
         ]_vars

\* C23, its case: a task answered 404 was dropped and the Result of a task
\* answered 403 has been sent
ForbiddenSentNotFoundDropped ==
    /\ obs.uninteresting >= 1
    /\ \E m \in Sent : m.kind = "primary" /\ m.res.StatusCode = 403

\* the word index and the extension index (0: the word alone) of the k-th
\* candidate of a target, in the order word, word with each extension, next
\* word
WordIndexOf(k) == ((k - 1) \div (1 + Len(config.Extensions))) + 1
ExtIndexOf(k) == (k - 1) % (1 + Len(config.Extensions))

\* the k-th candidate path
CandidateOf(k) ==
    IF ExtIndexOf(k) = 0
    THEN words[WordIndexOf(k)]
    ELSE words[WordIndexOf(k)] \o config.Extensions[ExtIndexOf(k)]

\* C24: the k-th send of the seeder enqueues the depth-1 task of the k-th
\* candidate (each word, then the word with each extension) of the target,
\* and the seeder sends nothing else; when the seeder is finished it has sent
\* |targets| * |words| * (1 + |extensions|) tasks, the value total starts
\* with; total is that value plus the tasks the manager has sent and counted
SeederEnqueuesEveryCandidate ==
    /\ [](obs.seeded <= SeedCount(config, words))
    /\ [](seeder.pc = "done" => obs.seeded = SeedCount(config, words))
    /\ [](stats.Total =
             SeedCount(config, words) + (obs.dispatched - obs.seeded)
                 - (IF manager.pc = "count" THEN 1 ELSE 0))
    /\ [](obs.dispatched = 0 =>
             stats.Total = Len(targets) * Len(words) * (1 + Len(config.Extensions)))
    /\ [][/\ seeder' # seeder =>
                \/ obs'.seeded = obs.seeded /\ taskChan' = taskChan
                \/ /\ obs'.seeded = obs.seeded + 1
                   /\ taskChan' =
                         Append(taskChan,
                                Task(targets[seeder.ti],
                                     CandidateOf(obs.seeded + 1), 1))
          /\ obs'.seeded # obs.seeded => seeder' # seeder
         ]_vars

\* C24, its case: the seeder has finished a wordlist of one word with one
\* extension: two tasks
SeedingEndedWithExtension ==
    /\ seeder.pc = "done"
    /\ Len(config.Extensions) = 1
    /\ obs.seeded = 2
    /\ stats.Total >= 2

\* the tasks one expansion enqueues, the directories expanded so far, and
\* the tasks the manager has sent so far
ChildrenPerDirectory == Len(words) * (1 + Len(config.Extensions))
DirectoriesExpanded == Cardinality(DOMAIN obs.expansions)
ChildrenSent == obs.dispatched - obs.seeded

\* C25: an accepted request (not seen before, depth within MaxDepth) is
\* recorded in scannedDirs and makes the manager send, one by one, the tasks
\* dir/word and dir/word+ext of every word, with the target and the depth of
\* the request, adding one to total after each; between two requests the
\* manager has sent |words| * (1 + |extensions|) tasks per directory
\* expanded; a request that is dropped changes neither taskChan nor total nor
\* scannedDirs
ExpansionEnqueuesEveryChild ==
    /\ [](manager.pc \notin {"send", "count"} =>
             /\ ChildrenSent = DirectoriesExpanded * ChildrenPerDirectory
             /\ stats.Total = SeedCount(config, words) + ChildrenSent)
    /\ [](manager.pc = "count" =>
             /\ ChildrenSent > (DirectoriesExpanded - 1) * ChildrenPerDirectory
             /\ ChildrenSent <= DirectoriesExpanded * ChildrenPerDirectory
             /\ stats.Total = SeedCount(config, words) + ChildrenSent - 1)
    /\ [](manager.pc = "send" =>
             /\ ChildrenSent >= (DirectoriesExpanded - 1) * ChildrenPerDirectory
             /\ ChildrenSent < DirectoriesExpanded * ChildrenPerDirectory
             /\ stats.Total = SeedCount(config, words) + ChildrenSent
             /\ manager.newTask.Path
                   \in MapGet(scannedDirs, manager.newTask.TargetURL, {})
             /\ manager.newTask.Depth <= config.MaxDepth)
    /\ [][/\ (newTaskChan # <<>> /\ newTaskChan' = Tail(newTaskChan)) =>
                LET req == Head(newTaskChan)
                    seen == MapGet(scannedDirs, req.TargetURL, {})
                IN  IF req.Path \notin seen /\ req.Depth <= config.MaxDepth
                    THEN /\ scannedDirs'[req.TargetURL] = seen \cup {req.Path}
                         /\ DirectoriesExpanded' = DirectoriesExpanded + 1
                         /\ Len(words) > 0 =>
                               manager'.pc = "send" /\ manager'.newTask = req
                         /\ taskChan' = taskChan
                         /\ stats' = stats
                    ELSE /\ scannedDirs' = scannedDirs
                         /\ obs'.expansions = obs.expansions
                         /\ manager' = manager
                         /\ taskChan' = taskChan
                         /\ stats' = stats
          /\ ChildrenSent' # ChildrenSent =>
                LET dir == manager.newTask
                    k == ChildrenSent
                            - (DirectoriesExpanded - 1) * ChildrenPerDirectory + 1
                IN  /\ manager.pc = "send"
                    /\ ChildrenSent' = ChildrenSent + 1
                    /\ manager' = [manager EXCEPT !.pc = "count"]
                    /\ taskChan' =
                          Append(taskChan,
                                 Task(dir.TargetURL,
                                      TrimSuffixSlash(dir.Path) \o <<Slash>>
                                          \o CandidateOf(k),
                                      dir.Depth))
                    /\ scannedDirs' = scannedDirs
          /\ (manager.pc = "count" /\ manager' # manager) =>
                /\ stats'.Total = stats.Total + 1
                /\ taskChan' = taskChan
                /\ manager'.pc \in {"send", "recv"}
                /\ manager'.pc = "send" => manager'.newTask = manager.newTask
          /\ stats'.Total # stats.Total => manager.pc = "count"
          /\ scannedDirs' # scannedDirs => manager' # manager
         ]_vars

\* C25, its case: with one word and one extension, the manager is back at
\* the receive after expanding a directory into two tasks per directory
DirectoryExpandedWithExtension ==
    /\ Len(config.Extensions) = 1
    /\ manager.pc = "recv"
    /\ DirectoriesExpanded >= 1
    /\ ChildrenSent = 2 * DirectoriesExpanded
    /\ stats.Total = SeedCount(config, words) + 2 * DirectoriesExpanded

\* the worker is at a send on resultChan
SendingResult(w) ==
    wk[w].pc \in {"sendMethod", "sendBypass", "sendMutation", "sendPrimary"}

\* C26: taskChan, resultChan and newTaskChan never hold more than
\* 2 * Threads items; a send adds one item to a channel that is not full;
\* while its channel is full (and open) a sender stays at its send, and the
\* channel does not grow
ChannelsBounded ==
    /\ [](/\ Len(taskChan) <= 2 * config.Threads
          /\ Len(resultChan) <= 2 * config.Threads
          /\ Len(newTaskChan) <= 2 * config.Threads)
    /\ [][/\ Len(taskChan') > Len(taskChan) =>
                /\ Len(taskChan) < 2 * config.Threads
                /\ SubSeq(taskChan', 1, Len(taskChan)) = taskChan
                /\ Len(taskChan') = Len(taskChan) + 1
          /\ Len(resultChan') > Len(resultChan) =>
                /\ Len(resultChan) < 2 * config.Threads
                /\ SubSeq(resultChan', 1, Len(resultChan)) = resultChan
                /\ Len(resultChan') = Len(resultChan) + 1
          /\ Len(newTaskChan') > Len(newTaskChan) =>
                /\ Len(newTaskChan) < 2 * config.Threads
                /\ SubSeq(newTaskChan', 1, Len(newTaskChan)) = newTaskChan
                /\ Len(newTaskChan') = Len(newTaskChan) + 1
          /\ (Len(taskChan) = 2 * config.Threads /\ ~taskClosed) =>
                /\ seeder.pc = "send" => seeder' = seeder
                /\ manager.pc = "send" => manager' = manager
                /\ obs'.dispatched = obs.dispatched
          /\ (Len(resultChan) = 2 * config.Threads /\ ~resultClosed) =>
                /\ \A w \in Workers : SendingResult(w) => wk'[w] = wk[w]
                /\ obs'.emitted = obs.emitted
          /\ (Len(newTaskChan) = 2 * config.Threads /\ ~newTaskClosed) =>
                \A w \in Workers : wk[w].pc = "sendNew" => wk'[w] = wk[w]
         ]_vars

\* C26, its case: with one worker, taskChan holds two tasks while the
\* seeder and the manager are both at their send, and a directory request
\* waits on newTaskChan
ProducersBlockedOnFullChannels ==
    /\ config.Threads = 1
    /\ Len(taskChan) = 2
    /\ seeder.pc = "send"
    /\ manager.pc = "send"
    /\ Len(newTaskChan) >= 1

\* the position of a worker within the pipeline of its task
Stage(pc) ==
    CASE pc = "primary" -> 1
      [] pc \in {"method", "sendMethod"} -> 2
      [] pc = "bypass" -> 3
      [] pc = "sendBypass" -> 4
      [] pc \in {"mutate", "sendMutation"} -> 5
      [] pc = "sendNew" -> 6
      [] pc = "sendPrimary" -> 7
      [] OTHER -> 0

\* the last message of resultChan after a send
LastSent == resultChan[Len(resultChan)]

NoCircularWait ==
    ~ /\ config.MaxDepth > 0
      /\ config.Threads >= 1
      /\ manager.pc = "send"
      /\ Len(taskChan) = ChanCap
      /\ ~taskClosed
      /\ Len(newTaskChan) = ChanCap
      /\ ~newTaskClosed
      /\ \A w \in Workers : wk[w].pc = "sendNew"

\* C28: matchesSignature returns true exactly when some signature has the
\* status of the result, a size above 0 and a size difference with
\* 20 * |difference| < signature size; a list of signatures of size 0, and
\* the empty list, match nothing
MatchesSignatureIsFivePercent ==
    (call.fn = "matchesSignature" /\ call.returned) =>
        /\ call.matched <=>
              \E i \in 1..Len(call.signatures) :
                  LET sig == call.signatures[i]
                      d == call.result.Size - sig.Size
                  IN  /\ sig.StatusCode = call.result.StatusCode
                      /\ sig.Size > 0
                      /\ 20 * (IF d < 0 THEN 0 - d ELSE d) < sig.Size
        /\ call.signatures = <<>> => ~call.matched
        /\ (\A i \in 1..Len(call.signatures) : call.signatures[i].Size = 0) =>
              ~call.matched

\* C28, its case: a result of 96 bytes matched the second signature, of 100
\* bytes, after a signature of the same status and of size 0 was passed over
MatchedAfterEmptySignature ==
    /\ call.fn = "matchesSignature"
    /\ call.returned
    /\ call.matched
    /\ call.result.Size = 96
    /\ Len(call.signatures) = 2
    /\ call.signatures[1] = [StatusCode |-> call.result.StatusCode, Size |-> 0]
    /\ call.signatures[2] = [StatusCode |-> call.result.StatusCode, Size |-> 100]

\* whether a signature matches when its three substrings are all searched
\* without regard to case
wafMatchesIgnoringCase(waf, resp) ==
    \/ /\ waf.ServerHeader # <<>>
       /\ Contains(ToLower(resp.Server), ToLower(waf.ServerHeader))
    \/ /\ waf.CustomHeader # <<>>
       /\ \E header \in HeaderNames(resp) :
             Contains(ToLower(header), ToLower(waf.CustomHeader))
    \/ /\ waf.CookiePattern # <<>>
       /\ \E cookie \in resp.Cookies :
             Contains(ToLower(cookie), ToLower(waf.CookiePattern))

\* the signature names in table order
wafNames ==
    << "Cloudflare", "AWS WAF", "Akamai", "Imperva", "F5 BigIP", "Sucuri",
       "StackPath", "Wordfence" >>

\* C29: detectWAF returns the name of the first signature, in the order
\* Cloudflare, AWS WAF, Akamai, Imperva, F5 BigIP, Sucuri, StackPath,
\* Wordfence, whose substring is contained, without regard to case, in the
\* Server value, in a header name or in a cookie name, and "" when there is
\* none
DetectWAFIgnoresCase ==
    (call.fn = "detectWAF" /\ call.returned) =>
        /\ \A i \in 1..Len(wafNames) : wafSignatures[i].Name = wafNames[i]
        /\ IF \E i \in 1..Len(wafNames) :
                 wafMatchesIgnoringCase(wafSignatures[i], call.resp)
           THEN \E i \in 1..Len(wafNames) :
                   /\ call.waf = wafNames[i]
                   /\ wafMatchesIgnoringCase(wafSignatures[i], call.resp)
                   /\ \A j \in 1..(i - 1) :
                         ~wafMatchesIgnoringCase(wafSignatures[j], call.resp)
           ELSE call.waf = ""

\* C31: no goroutine sends on a closed channel: no send finds its channel
\* closed, which in Go is a panic that ends the process
NoSendOnClosedChannel == ~panicked

\* C32: processed never exceeds total
ProcessedAtMostTotal == stats.Processed <= stats.Total

\* C33 (as stated): once the workers are between tasks and resultChan is
\* drained, the found counter equals the number of Results collected
FoundEqualsCollected ==
    (Quiescent /\ resultChan = <<>>) => stats.Found = results

\* C33: once the workers are between tasks and resultChan is drained, the
\* found counter equals the number of collected Results that are not bypass
\* or mutation Results: the worker counts the primary Result and the Result
\* of method fuzzing, and sends the bypass and mutation Results uncounted
FoundEqualsCollectedPrimaries ==
    /\ [](Quiescent => stats.Found = obs.emitted - obs.secondary)
    /\ []((Quiescent /\ resultChan = <<>>) =>
             /\ results = obs.emitted
             /\ stats.Found = results - obs.secondary)
    /\ [][/\ stats'.Found \in {stats.Found, stats.Found + 1}
          /\ \A w \in Workers :
                (/\ wk[w].pc \in {"sendBypass", "sendMutation"}
                 /\ wk'[w] # wk[w]
                 /\ ~panicked') =>
                   /\ stats'.Found = stats.Found
                   /\ obs'.secondary = obs.secondary + 1]_vars

\* C33 witness: a drained, quiescent run that collected a counted primary
\* Result and an uncounted bypass Result
BypassCollectedUncounted ==
    /\ Quiescent
    /\ resultChan = <<>>
    /\ obs.secondary >= 1
    /\ stats.Found >= 1
    /\ results = stats.Found + obs.secondary

\* the flagged Results worker w holds and has not sent yet
HeldFlagged(w) ==
    (IF wk[w].result.SecretFound THEN 1 ELSE 0)
        + (IF wk[w].pending.SecretFound THEN 1 ELSE 0)

RECURSIVE HeldFlaggedUpTo(_)
HeldFlaggedUpTo(n) == IF n = 0 THEN 0 ELSE HeldFlagged(n) + HeldFlaggedUpTo(n - 1)

\* C34: between tasks the secrets counter equals the number of Results sent
\* with SecretFound; in every state it is that number plus the flagged Results
\* the workers hold for sending, and a flagged Result leaves a worker only by
\* a send on resultChan, so no count is for a response that is not emitted
SecretsEqualFlaggedSent ==
    /\ [](stats.Secrets = obs.secretsSent + HeldFlaggedUpTo(config.Threads))
    /\ [](Quiescent => stats.Secrets = obs.secretsSent)
    /\ [][/\ stats'.Secrets \in {stats.Secrets, stats.Secrets + 1}
          /\ \A w \in Workers :
                HeldFlagged(w)' < HeldFlagged(w) =>
                   /\ Len(resultChan') = Len(resultChan) + 1
                   /\ resultChan'[Len(resultChan')].by = w
                   /\ resultChan'[Len(resultChan')].res.SecretFound]_vars

\* C34 witness: a quiescent run that counted two secrets, one of them of a
\* bypass or mutation Result
SecretsCountedAndSent ==
    /\ Quiescent
    /\ stats.Secrets >= 2
    /\ obs.secretsSent = stats.Secrets
    /\ obs.secondary >= 1

\* C35: between tasks the waf_hits counter equals the number of Results sent
\* with a non-empty WAFDetected
WAFHitsEqualDetectedSent == Quiescent => stats.WAFHits = obs.wafSent

====
